---------------------------- MODULE Spec2Model ----------------------------
(***************************************************************************)
(* A model of parse_har.py, the HAR reporter: one run of the script is a   *)
(* walk of the program counter pc through the statements of __main__ and   *)
(* parse_har.  Strings are TLA+ strings (Len, \o and SubSeq act on them as *)
(* Python's len, + and slicing do), JSON objects are records (a missing    *)
(* key is a field outside DOMAIN), JSON arrays are sequences.  The output  *)
(* is the sequence of the strings handed to print, one element per call.   *)
(***************************************************************************)
EXTENDS Integers, Sequences, FiniteSets, TLC

VARIABLES
    argv,       \* sys.argv[1:], the command-line arguments after the script name
    fs,         \* the file system: path -> file
    pc,         \* the statement about to run
    file_path,  \* parse_har's parameter
    calls,      \* the arguments parse_har was called with, in order
    opened,     \* the paths open() succeeded on, in order
    har_data,   \* json.load's result
    entries,    \* har_data['log']['entries']
    idx,        \* how many entries the for loop of line 13 has fetched
    entry, request, response, url,
    hdr,        \* how many headers the loop of line 27 has printed
    prm,        \* how many parameters the loop of line 34 has printed
    content, text,
    exc,        \* <<>> or <<exception class, str(e)>> of the exception raised
    output,     \* the strings printed so far by this run
    run,        \* number of the current run of the script
    prev        \* <<>> or <<[argv, output]>> of the previous run

io     == <<argv, fs, run, prev>>
loadv  == <<file_path, calls, opened, har_data, entries>>
iterv  == <<idx, entry, request, response, url>>
blockv == <<hdr, prm, content, text>>
vars   == <<io, loadv, iterv, blockv, pc, exc, output>>

----------------------------------------------------------------------------
(* Bounds of the model *)

\* longest log.entries sequence of the documents of Spec
MaxEntries == 2
\* longest log.entries sequence of the documents of SpecRerun
MaxEntriesRerun == 1
\* how many times SpecRerun runs the script
MaxRuns == 2

(* Constants of the program *)
SeparatorWidth == 80
BodyLimit == 1000
TruncateTo == 200
ErrorBodyLimit == 500
ErrorStatus == 400
MinArgc == 2

----------------------------------------------------------------------------
(* Python's operations on strings and objects *)

RECURSIVE Repeat(_, _)
\* s * n
Repeat(s, n) == IF n <= 0 THEN "" ELSE s \o Repeat(s, n - 1)

Min(a, b) == IF a < b THEN a ELSE b

\* s[:n]
Slice(s, n) == SubSeq(s, 1, Min(n, Len(s)))

\* sub in s, for strings
Contains(s, sub) ==
    \E i \in 1..(Len(s) - Len(sub) + 1) : SubSeq(s, i, i + Len(sub) - 1) = sub

\* key in obj
Has(obj, key) == key \in DOMAIN obj

\* str(KeyError(key))
KeyErrorMsg(key) == "'" \o key \o "'"

\* had line 48 been `except (OSError, ValueError)`
Catches_loadOnly(kind) == kind \in {"FileNotFoundError", "JSONDecodeError"}

\* the exception classes `except Exception` catches
Catches(kind) == kind \in {"KeyError", "FileNotFoundError", "JSONDecodeError"}

\* line 19 without its second test
matches_noOauth(u) == Contains(u, "api/auth") \/ Contains(u, "callback")

\* the filter of line 19
matches(u) ==
    Contains(u, "api/auth") \/ Contains(u, "api/oauth") \/ Contains(u, "callback")

\* `'queryString' in request` in place of its truth value
HasQuery_present(req) == Has(req, "queryString")

\* bool(request.get('queryString'))
HasQuery(req) == Has(req, "queryString") /\ Len(req.queryString) > 0

\* the condition of line 39
IsJson(c) ==
    /\ Has(c, "mimeType")
    /\ Len(c.mimeType) > 0
    /\ Contains(c.mimeType, "application/json")

\* content.get('text', '')
TextOf(c) == IF Has(c, "text") THEN c.text ELSE ""

\* `<=` in place of `<` in line 41
IsSmall_inclusive(t) == Len(t) <= BodyLimit

\* the condition of line 41
IsSmall(t) == Len(t) < BodyLimit

(* The lines the program prints *)
UsageLine == "Usage: python3 parse_har.py <file_path>"
\* the total counting the entries the filter keeps
TotalLine_matching(es) ==
    "Total entries: " \o ToString(Cardinality({k \in 1..Len(es) :
        /\ Has(es[k], "request") /\ Has(es[k].request, "url")
        /\ matches(es[k].request.url)}))
TotalLine(es) == "Total entries: " \o ToString(Len(es))
Separator == Repeat("-", SeparatorWidth)
UrlLine(u) == "URL: " \o u
MethodLine(req) == "Method: " \o req.method
StatusLine(resp) == "Status: " \o ToString(resp.status) \o " " \o resp.statusText
PairLine(p) == "  " \o p.name \o ": " \o p.value
BodyLine(t) == "Response Body: " \o t
TruncatedLine(t) == "Response Body (truncated): " \o Slice(t, TruncateTo) \o "..."
ErrorBodyLine(c) == "Error Response Body: " \o Slice(TextOf(c), ErrorBodyLimit)
ErrorLine(msg) == "Error parsing HAR: " \o msg

----------------------------------------------------------------------------
(* The inputs: files and command lines *)

\* a 100-character block that starts with its own number
Block(k) == SubSeq(ToString(1000 + k) \o Repeat("abcdefgh", 12), 1, 100)
RECURSIVE Blocks(_)
Blocks(k) == IF k = 0 THEN "" ELSE Blocks(k - 1) \o Block(k)
\* a text of n characters (n <= 1100) no two windows of which are alike
TextOfLen(n) == SubSeq(Blocks(11), 1, n)

Hdr(n, v) == [name |-> n, value |-> v]
Req(u, m, hs) == [url |-> u, method |-> m, headers |-> hs]
ReqQ(u, m, hs, qs) == [url |-> u, method |-> m, headers |-> hs, queryString |-> qs]
Resp(st, stt, c) == [status |-> st, statusText |-> stt, content |-> c]
Ent(req, resp) == [request |-> req, response |-> resp]

Json == "application/json"
OneHeader == <<Hdr("Accept", "*/*")>>
TwoHeaders == <<Hdr("Host", "x.com"), Hdr("Cookie", "sid=1")>>
TwoParams == <<Hdr("code", "abc"), Hdr("state", "xyz")>>

\* entries with every key the program reads, of the declared types
WellFormedEntries == {
    \* JSON bodies at and around the 1000-character threshold
    Ent(Req("https://x.com/api/auth/login", "POST", <<>>),
        Resp(200, "OK", [mimeType |-> Json, text |-> TextOfLen(50)])),
    Ent(ReqQ("https://x.com/api/oauth/token", "POST", OneHeader, <<>>),
        Resp(200, "OK", [mimeType |-> "application/json; charset=utf-8",
                         text |-> TextOfLen(BodyLimit - 1)])),
    Ent(ReqQ("https://x.com/callback?code=abc", "GET", TwoHeaders, TwoParams),
        Resp(500, "Server Error", [mimeType |-> Json, text |-> TextOfLen(BodyLimit)])),
    Ent(Req("https://x.com/api/auth/me", "GET", OneHeader),
        Resp(401, "Unauthorized", [mimeType |-> Json])),
    \* bodies that are not JSON
    Ent(Req("https://x.com/auth/callback", "GET", OneHeader),
        Resp(404, "Not Found", [text |-> "not found"])),
    Ent(ReqQ("https://x.com/api/auth/x", "GET", TwoHeaders, <<Hdr("q", "1")>>),
        Resp(ErrorStatus, "Bad Request",
             [mimeType |-> "text/html", text |-> TextOfLen(ErrorBodyLimit + 1)])),
    Ent(Req("https://x.com/api/oauth/y", "GET", <<>>),
        Resp(ErrorStatus - 1, "Odd", [mimeType |-> "text/html", text |-> "<p>hi</p>"])),
    Ent(Req("https://x.com/callback", "GET", <<>>),
        Resp(503, "Unavailable", <<>>)),
    Ent(Req("https://x.com/api/auth/z", "GET", OneHeader),
        Resp(200, "OK", [mimeType |-> "", text |-> "{}"])),
    \* urls the filter rejects
    Ent(Req("https://x.com/static/app.js", "GET", OneHeader),
        Resp(200, "OK", [mimeType |-> "text/javascript", text |-> "x=1"])),
    Ent(ReqQ("https://x.com/API/AUTH/Callback", "GET", <<>>, TwoParams),
        Resp(500, "Server Error", [mimeType |-> Json, text |-> "{}"])),
    Ent(Req("https://x.com/api/aut/call-back", "GET", <<>>),
        Resp(404, "Not Found", [text |-> "not found"]))
}

\* entries that lack a key
MalformedEntries == {
    [response |-> Resp(200, "OK", <<>>)],
    [request |-> Req("https://x.com/static/app.js", "GET", <<>>)],
    Ent([method |-> "GET", headers |-> <<>>], Resp(200, "OK", <<>>)),
    \* matching url, a key of the block missing
    Ent([url |-> "https://x.com/api/auth/a", headers |-> OneHeader], Resp(200, "OK", <<>>)),
    Ent(Req("https://x.com/api/auth/b", "GET", OneHeader),
        [statusText |-> "OK", content |-> <<>>]),
    Ent(Req("https://x.com/api/auth/c", "GET", OneHeader),
        [status |-> 200, content |-> <<>>]),
    Ent([url |-> "https://x.com/api/auth/d", method |-> "GET"], Resp(200, "OK", <<>>)),
    Ent(Req("https://x.com/api/auth/e", "GET", <<Hdr("Host", "x.com"), [name |-> "Cookie"]>>),
        Resp(200, "OK", <<>>)),
    Ent(ReqQ("https://x.com/callback?f", "GET", OneHeader, <<[value |-> "abc"]>>),
        Resp(200, "OK", <<>>)),
    Ent(Req("https://x.com/api/auth/g", "GET", OneHeader),
        [status |-> 404, statusText |-> "Not Found"]),
    \* url the filter rejects, the keys of the block missing
    Ent([url |-> "https://x.com/favicon.ico"], <<>>)
}

EntryPool == WellFormedEntries \cup MalformedEntries

RECURSIVE SeqsUpTo(_, _)
\* the sequences over S of length at most n
SeqsUpTo(S, n) ==
    IF n = 0 THEN {<<>>}
    ELSE LET shorter == SeqsUpTo(S, n - 1)
         IN  shorter \cup {Append(s, x) : s \in {t \in shorter : Len(t) = n - 1}, x \in S}

MissingFile == [kind |-> "missing"]
InvalidFile == [kind |-> "invalid"]
JsonFile(v) == [kind |-> "json", value |-> v]

\* the files whose log.entries has at most n entries, and the files that do not load
Files(n) ==
    {MissingFile, InvalidFile, JsonFile(<<>>), JsonFile([log |-> <<>>]),
     JsonFile([creator |-> "x"])}
    \cup {JsonFile([log |-> [entries |-> es]]) : es \in SeqsUpTo(EntryPool, n)}

MainPath == "capture.har"
OtherPath == "other.har"
OtherFile == JsonFile([log |-> [entries |->
    <<Ent(Req("https://other.org/callback", "GET", <<>>), Resp(200, "OK", <<>>))>>]])

Argvs == {<<>>, <<MainPath>>, <<MainPath, OtherPath>>, <<OtherPath, MainPath>>}

----------------------------------------------------------------------------
(* The program *)

Start(args, file) ==
    /\ argv = args
    /\ fs = [p \in {MainPath, OtherPath} |-> IF p = MainPath THEN file ELSE OtherFile]
    /\ pc = "main"
    /\ file_path = ""
    /\ calls = <<>>
    /\ opened = <<>>
    /\ har_data = <<>>
    /\ entries = <<>>
    /\ idx = 0
    /\ entry = <<>>
    /\ request = <<>>
    /\ response = <<>>
    /\ url = ""
    /\ hdr = 0
    /\ prm = 0
    /\ content = <<>>
    /\ text = ""
    /\ exc = <<>>
    /\ output = <<>>
    /\ run = 1
    /\ prev = <<>>

Init == \E args \in {<<>>, <<MainPath>>} : \E file \in Files(MaxEntries) : Start(args, file)

InitRerun == \E args \in Argvs : \E file \in Files(MaxEntriesRerun) : Start(args, file)

\* raise an exception inside the try block of parse_har
Raise(kind, msg) ==
    /\ exc' = <<kind, msg>>
    /\ pc' = IF Catches(kind) THEN "except" ELSE "uncaught"

\* go on to statement l without raising
Goto(l) == pc' = l /\ exc' = exc

\* print(line)
Emit(line) == output' = Append(output, line)

\* sys.argv[-1] in place of sys.argv[1]
Main_lastArg ==
    /\ pc = "main"
    /\ IF Len(argv) + 1 < MinArgc
       THEN /\ Goto("usage")
            /\ UNCHANGED loadv
       ELSE /\ Goto("open")
            /\ file_path' = argv[Len(argv)]
            /\ calls' = Append(calls, argv[Len(argv)])
            /\ UNCHANGED <<opened, har_data, entries>>
    /\ UNCHANGED <<io, iterv, blockv, output>>

\* lines 51-52 and 54-55
Main ==
    /\ pc = "main"
    /\ IF Len(argv) + 1 < MinArgc
       THEN /\ Goto("usage")
            /\ UNCHANGED loadv
       ELSE /\ Goto("open")
            /\ file_path' = argv[1]
            /\ calls' = Append(calls, argv[1])
            /\ UNCHANGED <<opened, har_data, entries>>
    /\ UNCHANGED <<io, iterv, blockv, output>>

\* line 53
Usage ==
    /\ pc = "usage"
    /\ Emit(UsageLine)
    /\ Goto("exit")
    /\ UNCHANGED <<io, loadv, iterv, blockv>>

\* line 7
Open ==
    /\ pc = "open"
    /\ IF fs[file_path].kind = "missing"
       THEN /\ Raise("FileNotFoundError",
                     "[Errno 2] No such file or directory: '" \o file_path \o "'")
            /\ UNCHANGED opened
       ELSE /\ Goto("json_load")
            /\ opened' = Append(opened, file_path)
    /\ UNCHANGED <<io, file_path, calls, har_data, entries, iterv, blockv, output>>

\* line 8
JsonLoad ==
    /\ pc = "json_load"
    /\ IF fs[file_path].kind = "invalid"
       THEN /\ Raise("JSONDecodeError", "Expecting value: line 1 column 1 (char 0)")
            /\ UNCHANGED har_data
       ELSE /\ Goto("get_entries")
            /\ har_data' = fs[file_path].value
    /\ UNCHANGED <<io, file_path, calls, opened, entries, iterv, blockv, output>>

\* har_data.get('log', {}).get('entries', []) in place of line 10's subscripts
GetEntries_lenient ==
    /\ pc = "get_entries"
    /\ Goto("print_total")
    /\ entries' = IF Has(har_data, "log") /\ Has(har_data.log, "entries")
                  THEN har_data.log.entries ELSE <<>>
    /\ UNCHANGED <<io, file_path, calls, opened, har_data, iterv, blockv, output>>

\* line 10
GetEntries ==
    /\ pc = "get_entries"
    /\ IF ~Has(har_data, "log")
       THEN Raise("KeyError", KeyErrorMsg("log")) /\ UNCHANGED entries
       ELSE IF ~Has(har_data.log, "entries")
       THEN Raise("KeyError", KeyErrorMsg("entries")) /\ UNCHANGED entries
       ELSE Goto("print_total") /\ entries' = har_data.log.entries
    /\ UNCHANGED <<io, file_path, calls, opened, har_data, iterv, blockv, output>>

\* line 11
PrintTotal ==
    /\ pc = "print_total"
    /\ Emit(TotalLine(entries))
    /\ Goto("for")
    /\ UNCHANGED <<io, loadv, iterv, blockv>>

\* `for entry in reversed(entries)`
ForEntry_reversed ==
    /\ pc = "for"
    /\ IF idx < Len(entries)
       THEN /\ idx' = idx + 1
            /\ entry' = entries[Len(entries) - idx]
            /\ Goto("get_request")
       ELSE /\ Goto("exit")
            /\ UNCHANGED <<idx, entry>>
    /\ UNCHANGED <<io, loadv, request, response, url, blockv, output>>

\* line 13: the next entry, or the end of the loop and of parse_har
ForEntry ==
    /\ pc = "for"
    /\ IF idx < Len(entries)
       THEN /\ idx' = idx + 1
            /\ entry' = entries[idx + 1]
            /\ Goto("get_request")
       ELSE /\ Goto("exit")
            /\ UNCHANGED <<idx, entry>>
    /\ UNCHANGED <<io, loadv, request, response, url, blockv, output>>

\* line 14
GetRequest ==
    /\ pc = "get_request"
    /\ IF Has(entry, "request")
       THEN Goto("get_response") /\ request' = entry.request
       ELSE Raise("KeyError", KeyErrorMsg("request")) /\ UNCHANGED request
    /\ UNCHANGED <<io, loadv, idx, entry, response, url, blockv, output>>

\* line 15
GetResponse ==
    /\ pc = "get_response"
    /\ IF Has(entry, "response")
       THEN Goto("get_url") /\ response' = entry.response
       ELSE Raise("KeyError", KeyErrorMsg("response")) /\ UNCHANGED response
    /\ UNCHANGED <<io, loadv, idx, entry, request, url, blockv, output>>

\* request['method'] read before the filter, with the url
GetUrl_methodFirst ==
    /\ pc = "get_url"
    /\ IF ~Has(request, "url")
       THEN Raise("KeyError", KeyErrorMsg("url")) /\ UNCHANGED url
       ELSE IF ~Has(request, "method")
       THEN Raise("KeyError", KeyErrorMsg("method")) /\ UNCHANGED url
       ELSE Goto("filter") /\ url' = request.url
    /\ UNCHANGED <<io, loadv, idx, entry, request, response, blockv, output>>

\* line 16
GetUrl ==
    /\ pc = "get_url"
    /\ IF Has(request, "url")
       THEN Goto("filter") /\ url' = request.url
       ELSE Raise("KeyError", KeyErrorMsg("url")) /\ UNCHANGED url
    /\ UNCHANGED <<io, loadv, idx, entry, request, response, blockv, output>>

\* line 19
Filter ==
    /\ pc = "filter"
    /\ Goto(IF matches(url) THEN "print_sep" ELSE "for")
    /\ UNCHANGED <<io, loadv, iterv, blockv, output>>

\* line 20
PrintSeparator ==
    /\ pc = "print_sep"
    /\ Emit(Separator)
    /\ Goto("print_url")
    /\ UNCHANGED <<io, loadv, iterv, blockv>>

\* line 21
PrintUrl ==
    /\ pc = "print_url"
    /\ Emit(UrlLine(url))
    /\ Goto("print_method")
    /\ UNCHANGED <<io, loadv, iterv, blockv>>

\* line 22
PrintMethod ==
    /\ pc = "print_method"
    /\ IF Has(request, "method")
       THEN Emit(MethodLine(request)) /\ Goto("print_status")
       ELSE Raise("KeyError", KeyErrorMsg("method")) /\ UNCHANGED output
    /\ UNCHANGED <<io, loadv, iterv, blockv>>

\* line 23
PrintStatus ==
    /\ pc = "print_status"
    /\ IF ~Has(response, "status")
       THEN Raise("KeyError", KeyErrorMsg("status")) /\ UNCHANGED output
       ELSE IF ~Has(response, "statusText")
       THEN Raise("KeyError", KeyErrorMsg("statusText")) /\ UNCHANGED output
       ELSE Emit(StatusLine(response)) /\ Goto("print_headers")
    /\ UNCHANGED <<io, loadv, iterv, blockv>>

\* line 26
PrintHeadersLabel ==
    /\ pc = "print_headers"
    /\ Emit("Headers:")
    /\ Goto("iter_headers")
    /\ UNCHANGED <<io, loadv, iterv, blockv>>

\* line 27, the iterable: request['headers']
IterHeaders ==
    /\ pc = "iter_headers"
    /\ IF Has(request, "headers")
       THEN Goto("for_header") /\ hdr' = 0
       ELSE Raise("KeyError", KeyErrorMsg("headers")) /\ UNCHANGED hdr
    /\ UNCHANGED <<io, loadv, iterv, prm, content, text, output>>

\* the line printed for the k-th name/value pair of ps, or the key it lacks
PairStep(ps, k, next) ==
    LET p == ps[k] IN
    IF ~Has(p, "name")
    THEN Raise("KeyError", KeyErrorMsg("name")) /\ UNCHANGED output
    ELSE IF ~Has(p, "value")
    THEN Raise("KeyError", KeyErrorMsg("value")) /\ UNCHANGED output
    ELSE Emit(PairLine(p)) /\ Goto(next)

\* the headers iterated in the order of a set, which a run does not fix
ForHeader_unordered ==
    /\ pc = "for_header"
    /\ IF hdr < Len(request.headers)
       THEN /\ \E k \in 1..Len(request.headers) : PairStep(request.headers, k, "for_header")
            /\ hdr' = hdr + 1
       ELSE Goto("if_query") /\ UNCHANGED <<hdr, output>>
    /\ UNCHANGED <<io, loadv, iterv, prm, content, text>>

\* lines 27-28: one header, or the end of the loop
ForHeader ==
    /\ pc = "for_header"
    /\ IF hdr < Len(request.headers)
       THEN PairStep(request.headers, hdr + 1, "for_header") /\ hdr' = hdr + 1
       ELSE Goto("if_query") /\ UNCHANGED <<hdr, output>>
    /\ UNCHANGED <<io, loadv, iterv, prm, content, text>>

\* line 32
IfQuery ==
    /\ pc = "if_query"
    /\ Goto(IF HasQuery(request) THEN "print_query" ELSE "get_content")
    /\ UNCHANGED <<io, loadv, iterv, blockv, output>>

\* line 33
PrintQueryLabel ==
    /\ pc = "print_query"
    /\ Emit("Query Params:")
    /\ Goto("for_param")
    /\ prm' = 0
    /\ UNCHANGED <<io, loadv, iterv, hdr, content, text>>

\* lines 34-35: one parameter, or the end of the loop
ForParam ==
    /\ pc = "for_param"
    /\ IF prm < Len(request.queryString)
       THEN PairStep(request.queryString, prm + 1, "for_param") /\ prm' = prm + 1
       ELSE Goto("get_content") /\ UNCHANGED <<prm, output>>
    /\ UNCHANGED <<io, loadv, iterv, hdr, content, text>>

\* line 38
GetContent ==
    /\ pc = "get_content"
    /\ IF Has(response, "content")
       THEN Goto("if_json") /\ content' = response.content
       ELSE Raise("KeyError", KeyErrorMsg("content")) /\ UNCHANGED content
    /\ UNCHANGED <<io, loadv, iterv, hdr, prm, text, output>>

\* line 39
IfJson ==
    /\ pc = "if_json"
    /\ Goto(IF IsJson(content) THEN "get_text" ELSE "elif_status")
    /\ UNCHANGED <<io, loadv, iterv, blockv, output>>

\* lines 40-41
GetText ==
    /\ pc = "get_text"
    /\ text' = TextOf(content)
    /\ Goto(IF IsSmall(TextOf(content)) THEN "print_body" ELSE "print_truncated")
    /\ UNCHANGED <<io, loadv, iterv, hdr, prm, content, output>>

\* line 42
PrintBody ==
    /\ pc = "print_body"
    /\ Emit(BodyLine(text))
    /\ Goto("for")
    /\ UNCHANGED <<io, loadv, iterv, blockv>>

\* line 44
PrintTruncated ==
    /\ pc = "print_truncated"
    /\ Emit(TruncatedLine(text))
    /\ Goto("for")
    /\ UNCHANGED <<io, loadv, iterv, blockv>>

\* line 45
ElifStatus ==
    /\ pc = "elif_status"
    /\ IF Has(response, "status")
       THEN Goto(IF response.status >= ErrorStatus THEN "print_error_body" ELSE "for")
       ELSE Raise("KeyError", KeyErrorMsg("status"))
    /\ UNCHANGED <<io, loadv, iterv, blockv, output>>

\* line 46
PrintErrorBody ==
    /\ pc = "print_error_body"
    /\ Emit(ErrorBodyLine(content))
    /\ Goto("for")
    /\ UNCHANGED <<io, loadv, iterv, blockv>>

\* lines 48-49
Except ==
    /\ pc = "except"
    /\ Emit(ErrorLine(exc[2]))
    /\ pc' = "exit"
    /\ UNCHANGED <<io, loadv, iterv, blockv, exc>>

\* the script is run again on the same file system, with any command line
Rerun ==
    /\ pc = "exit"
    /\ run < MaxRuns
    /\ \E args \in Argvs :
        /\ argv' = args
        /\ prev' = <<[argv |-> argv, output |-> output]>>
    /\ run' = run + 1
    /\ fs' = fs
    /\ pc' = "main"
    /\ file_path' = ""
    /\ calls' = <<>>
    /\ opened' = <<>>
    /\ har_data' = <<>>
    /\ entries' = <<>>
    /\ idx' = 0
    /\ entry' = <<>>
    /\ request' = <<>>
    /\ response' = <<>>
    /\ url' = ""
    /\ hdr' = 0
    /\ prm' = 0
    /\ content' = <<>>
    /\ text' = ""
    /\ exc' = <<>>
    /\ output' = <<>>

Next ==
    \/ Main \/ Usage \/ Open \/ JsonLoad \/ GetEntries \/ PrintTotal
    \/ ForEntry \/ GetRequest \/ GetResponse \/ GetUrl \/ Filter
    \/ PrintSeparator \/ PrintUrl \/ PrintMethod \/ PrintStatus
    \/ PrintHeadersLabel \/ IterHeaders \/ ForHeader
    \/ IfQuery \/ PrintQueryLabel \/ ForParam
    \/ GetContent \/ IfJson \/ GetText \/ PrintBody \/ PrintTruncated
    \/ ElifStatus \/ PrintErrorBody \/ Except

NextRerun == Next \/ Rerun

Spec == Init /\ [][Next]_vars

SpecRerun == InitRerun /\ [][NextRerun]_vars

----------------------------------------------------------------------------
(* What the claims speak of, stated from the claims' words *)

StartsWith(s, p) == Len(s) >= Len(p) /\ SubSeq(s, 1, Len(p)) = p
IsPrefix(a, b) == Len(a) <= Len(b) /\ SubSeq(b, 1, Len(a)) = a
Last(s) == s[Len(s)]

\* the file the command line names
Named == fs[argv[1]]
Loads(f) == f.kind = "json" /\ Has(f.value, "log") /\ Has(f.value.log, "entries")
LoadOk == Len(argv) >= 1 /\ Loads(Named)
LoadFails == Len(argv) >= 1 /\ ~Loads(Named)
\* log.entries of the file the command line names
InputEntries == Named.value.log.entries

ClaimKeywords == {"api/auth", "api/oauth", "callback"}
\* kw occurs in s at position i, character by character
OccursAt(s, kw, i) ==
    /\ i + Len(kw) - 1 <= Len(s)
    /\ \A k \in 1..Len(kw) : SubSeq(s, i + k - 1, i + k - 1) = SubSeq(kw, k, k)
Occurs(s, kw) == \E i \in 1..Len(s) : OccursAt(s, kw, i)
ClaimMatch(u) == \E kw \in ClaimKeywords : Occurs(u, kw)

WellFormedPair(p) == Has(p, "name") /\ Has(p, "value")
WellFormedEntry(e) ==
    /\ Has(e, "request") /\ Has(e, "response")
    /\ Has(e.request, "url") /\ Has(e.request, "method") /\ Has(e.request, "headers")
    /\ \A i \in 1..Len(e.request.headers) : WellFormedPair(e.request.headers[i])
    /\ Has(e.request, "queryString") =>
         \A i \in 1..Len(e.request.queryString) : WellFormedPair(e.request.queryString[i])
    /\ Has(e.response, "status") /\ Has(e.response, "statusText")
    /\ Has(e.response, "content")
\* the entry has the keys every iteration reads: request, response, request.url
HasCore(e) == Has(e, "request") /\ Has(e, "response") /\ Has(e.request, "url")
WellFormedInput == LoadOk /\ \A k \in 1..Len(InputEntries) : WellFormedEntry(InputEntries[k])

Dashes80 == "--------------------------------------------------------------------------------"
IsSeparator(l) == l = Dashes80
IsUrlLine(l) == StartsWith(l, "URL: ")
IsBodyLine(l) == StartsWith(l, "Response Body") \/ StartsWith(l, "Error Response Body")
IsErrorLine(l) == StartsWith(l, "Error parsing HAR: ")
SepCount == Len(SelectSeq(output, IsSeparator))
MatchingIndexes == {k \in 1..Len(InputEntries) :
                        HasCore(InputEntries[k]) /\ ClaimMatch(InputEntries[k].request.url)}
\* the statements inside the if of line 19
BlockPcs == {"print_sep", "print_url", "print_method", "print_status", "print_headers",
             "iter_headers", "for_header", "if_query", "print_query", "for_param",
             "get_content", "if_json", "get_text", "print_body", "print_truncated",
             "elif_status", "print_error_body"}
\* the lines printed since the last separator, the separator included
LastBlock ==
    LET j == CHOOSE i \in 1..Len(output) :
                 IsSeparator(output[i]) /\ \A k \in (i + 1)..Len(output) : ~IsSeparator(output[k])
    IN  SubSeq(output, j, Len(output))
\* an iteration of the loop has just ended, having printed a block
BlockDone ==
    /\ LoadOk /\ pc = "for" /\ idx >= 1
    /\ ClaimMatch(InputEntries[idx].request.url)

----------------------------------------------------------------------------
(* C1: whatever the entries hold, the first line printed for a document    *)
(* with N entries is 'Total entries: N', and it is printed before any      *)
(* entry is examined.                                                      *)
C1_TotalLineFirst ==
    LoadOk =>
        LET total == "Total entries: " \o ToString(Len(InputEntries)) IN
        /\ output # <<>> => output[1] = total
        /\ (idx > 0 \/ pc \in {"for", "exit"}) => output # <<>>
        /\ (pc = "for" /\ idx = 0) => output = <<total>>

C1_Witness ==
    /\ LoadOk /\ pc = "exit" /\ exc # <<>>
    /\ Len(InputEntries) = 2 /\ idx = 1
    /\ output[1] = "Total entries: 2"

(* C2: over well-formed entries a block is printed for an entry iff its    *)
(* url contains 'api/auth', 'api/oauth' or 'callback' as a case-sensitive  *)
(* substring: the statements of the block run only for such an entry, the  *)
(* separators number the matching entries, and a document none of whose    *)
(* urls match prints the total line alone.                                 *)
C2_FilterCorrect ==
    /\ (LoadOk /\ pc \in BlockPcs) => ClaimMatch(InputEntries[idx].request.url)
    /\ (WellFormedInput /\ pc = "exit") =>
           /\ SepCount = Cardinality(MatchingIndexes)
           /\ MatchingIndexes = {} => Len(output) = 1

C2_Witness ==
    /\ WellFormedInput /\ pc = "exit"
    /\ Len(InputEntries) = 2
    /\ ClaimMatch(InputEntries[1].request.url)
    /\ InputEntries[2].request.url = "https://x.com/API/AUTH/Callback"
    /\ SepCount = 1

\* the body lines the claim gives an entry
ClaimBody(e) ==
    LET c == e.response.content
        t == IF Has(c, "text") THEN c.text ELSE ""
    IN  IF Has(c, "mimeType") /\ Occurs(c.mimeType, "application/json")
        THEN IF Len(t) < 1000
             THEN <<"Response Body: " \o t>>
             ELSE <<"Response Body (truncated): " \o SubSeq(t, 1, 200) \o "...">>
        ELSE IF e.response.status >= 400
        THEN <<"Error Response Body: " \o
                 (IF Len(t) <= 500 THEN t ELSE SubSeq(t, 1, 500))>>
        ELSE <<>>

(* C3: the body lines of a finished block are those of the priority chain: *)
(* a JSON mime type gives 'Response Body: <text>' below 1000 characters    *)
(* and the 200-character truncation from 1000 on, whatever the status;     *)
(* otherwise a status >= 400 gives 'Error Response Body: <first 500>';     *)
(* otherwise no line.  So a block has at most one body line.               *)
C3_BodySelection ==
    BlockDone =>
        /\ SelectSeq(LastBlock, IsBodyLine) = ClaimBody(InputEntries[idx])
        /\ Len(SelectSeq(LastBlock, IsBodyLine)) <= 1

C3_Witness ==
    /\ BlockDone
    /\ Has(InputEntries[idx].response.content, "text")
    /\ Len(InputEntries[idx].response.content.text) = 1000
    /\ InputEntries[idx].response.status = 500
    /\ StartsWith(Last(output), "Response Body (truncated): 1001abc")
    /\ Len(Last(output)) = 27 + 200 + 3

\* the error lines printed so far
ErrorLines == SelectSeq(output, IsErrorLine)

C4_State ==
    /\ pc # "uncaught"
    /\ Len(ErrorLines) <= 1
    /\ (pc = "exit" /\ exc # <<>>) =>
           /\ Len(ErrorLines) = 1
           /\ Last(output) = "Error parsing HAR: " \o exc[2]
    /\ (exc # <<>> /\ idx >= 1) => pc \in {"except", "exit"}

C4_Step ==
    /\ IsPrefix(output, output')
    /\ (exc = <<>> /\ exc' # <<>>) => output' = output
    /\ exc # <<>> =>
           /\ exc' = exc /\ idx' = idx /\ pc' = "exit"
           /\ output' = Append(output, "Error parsing HAR: " \o exc[2])

(* C4: when an entry fails, the lines printed so far stay, one line        *)
(* 'Error parsing HAR: <message>' follows as the last line, no later entry *)
(* is processed, and the exception does not leave parse_har; the error     *)
(* line is printed at most once in a run.                                  *)
C4_AbortOnFirstError == []C4_State /\ [][C4_Step]_vars

C4_Witness ==
    /\ LoadOk /\ pc = "exit" /\ exc = <<"KeyError", "'method'">>
    /\ Len(InputEntries) = 2 /\ idx = 1
    /\ output = <<"Total entries: 2", Dashes80, "URL: https://x.com/api/auth/a",
                  "Error parsing HAR: 'method'">>

(* C5: when the file cannot be opened, is not JSON, or has no log.entries, *)
(* the whole output is the single line 'Error parsing HAR: <message>'.     *)
C5_LoadFailure ==
    LoadFails =>
        /\ Len(output) <= 1
        /\ output # <<>> => IsErrorLine(output[1]) /\ ~Occurs(output[1], "\n")
        /\ pc = "exit" => Len(output) = 1

C5_Witness ==
    /\ LoadFails /\ pc = "exit"
    /\ Named = JsonFile([log |-> <<>>])
    /\ output = <<"Error parsing HAR: 'entries'">>

RECURSIVE ClaimUrlLines(_)
\* the URL lines of the matching entries of es, in the order of es, up to the
\* first entry without a url
ClaimUrlLines(es) ==
    IF Len(es) = 0 \/ ~HasCore(Head(es)) THEN <<>>
    ELSE (IF ClaimMatch(Head(es).request.url)
          THEN <<"URL: " \o Head(es).request.url>> ELSE <<>>)
         \o ClaimUrlLines(Tail(es))

(* C6: the blocks come in the order of log.entries: the URL lines printed  *)
(* are, in order, those of the matching entries (all of them, once each,   *)
(* when the run ends without error), and each block is one piece: a URL    *)
(* line stands right after a separator and nowhere else.                   *)
C6_OutputOrder ==
    LoadOk =>
        /\ IsPrefix(SelectSeq(output, IsUrlLine), ClaimUrlLines(InputEntries))
        /\ (pc = "exit" /\ exc = <<>>) =>
               SelectSeq(output, IsUrlLine) = ClaimUrlLines(InputEntries)
        /\ \A j \in 2..Len(output) : IsUrlLine(output[j]) <=> IsSeparator(output[j - 1])

C6_Witness ==
    /\ LoadOk /\ pc = "exit" /\ exc = <<>>
    /\ SelectSeq(output, IsUrlLine) =
           <<"URL: https://x.com/callback?code=abc", "URL: https://x.com/api/auth/login">>

\* the lines of a pair list, as the claim gives them
ClaimPairLines(ps) == [i \in 1..Len(ps) |-> "  " \o ps[i].name \o ": " \o ps[i].value]
\* a block up to its body line, as the claim gives it
ClaimBlockHead(e) ==
    <<Dashes80,
      "URL: " \o e.request.url,
      "Method: " \o e.request.method,
      "Status: " \o ToString(e.response.status) \o " " \o e.response.statusText,
      "Headers:">>
    \o ClaimPairLines(e.request.headers)
    \o (IF Has(e.request, "queryString") /\ Len(e.request.queryString) > 0
        THEN <<"Query Params:">> \o ClaimPairLines(e.request.queryString)
        ELSE <<>>)

(* C7: the block of a well-formed matching entry is the separator, URL,    *)
(* Method, Status, 'Headers:' and one line per header in order, then       *)
(* 'Query Params:' and one line per parameter iff queryString is present   *)
(* and not empty, then the body line, if any, last.                        *)
C7_BlockLayout ==
    (BlockDone /\ WellFormedEntry(InputEntries[idx])) =>
        LET head == ClaimBlockHead(InputEntries[idx])
            rest == Len(LastBlock) - Len(head)
        IN  /\ IsPrefix(head, LastBlock)
            /\ rest \in {0, 1}
            /\ rest = 1 => IsBodyLine(Last(LastBlock))

C7_Witness ==
    /\ BlockDone
    /\ LastBlock = <<Dashes80, "URL: https://x.com/callback?code=abc", "Method: GET",
                     "Status: 500 Server Error", "Headers:", "  Host: x.com",
                     "  Cookie: sid=1", "Query Params:", "  code: abc", "  state: xyz",
                     "Response Body (truncated): " \o TextOfLen(200) \o "...">>

(* C8: without arguments the output is the usage line alone and parse_har  *)
(* is not called, no file opened; with arguments parse_har is called once, *)
(* on the first, the usage line is not printed, and the arguments after    *)
(* the first change nothing in the output.                                 *)
C8_Invocation ==
    /\ Len(argv) = 0 =>
           /\ calls = <<>> /\ opened = <<>>
           /\ IsPrefix(output, <<"Usage: python3 parse_har.py <file_path>">>)
           /\ pc = "exit" => Len(output) = 1
    /\ Len(argv) >= 1 =>
           /\ IsPrefix(calls, <<argv[1]>>) /\ IsPrefix(opened, <<argv[1]>>)
           /\ pc # "main" => calls = <<argv[1]>>
           /\ \A j \in 1..Len(output) : ~StartsWith(output[j], "Usage")
           /\ (/\ pc = "exit" /\ prev # <<>>
               /\ Len(prev[1].argv) >= 1 /\ prev[1].argv[1] = argv[1])
                  => output = prev[1].output

C8_Witness ==
    /\ pc = "exit" /\ prev # <<>>
    /\ prev[1].argv = <<MainPath>> /\ argv = <<MainPath, OtherPath>>
    /\ output = prev[1].output
    /\ Len(output) > 1
    /\ calls = <<MainPath>>

C9_SameOutput ==
    (pc = "exit" /\ prev # <<>> /\ prev[1].argv = argv) => output = prev[1].output

FirstCoreless ==
    LET S == {k \in 1..Len(InputEntries) : ~HasCore(InputEntries[k])}
    IN  IF S = {} THEN 0 ELSE CHOOSE k \in S : \A j \in S : k <= j

(* C10: an entry without request, response or request.url aborts the run   *)
(* whether or not it would match; a non-matching entry without method,     *)
(* headers, status, statusText or content raises nothing, prints nothing,  *)
(* and the entries after it are processed.                                 *)
C10_FilterDecidesAbort ==
    (LoadOk /\ pc = "exit") =>
        /\ FirstCoreless > 0 =>
               /\ exc # <<>> /\ idx <= FirstCoreless
               /\ IsErrorLine(Last(output))
               /\ (\A j \in 1..(FirstCoreless - 1) :
                       ~ClaimMatch(InputEntries[j].request.url))
                     => /\ idx = FirstCoreless
                        /\ exc[2] \in {"'request'", "'response'", "'url'"}
                        /\ Len(output) = 2
        /\ (/\ FirstCoreless = 0
            /\ \A k \in MatchingIndexes : WellFormedEntry(InputEntries[k]))
               => /\ exc = <<>> /\ idx = Len(InputEntries)
                  /\ ErrorLines = <<>>
                  /\ SepCount = Cardinality(MatchingIndexes)

C10_Witness ==
    /\ LoadOk /\ pc = "exit" /\ exc = <<>>
    /\ Len(InputEntries) = 2 /\ idx = 2
    /\ InputEntries[1] = Ent([url |-> "https://x.com/favicon.ico"], <<>>)
    /\ SepCount = 1
    /\ output[2] = Dashes80

=============================================================================
